---- MODULE Spec2Model ----
(***************************************************************************)
(* Model of src/src/avm1.rs: Code::compile, the translation of the first   *)
(* block of an AVM1 control-flow graph into a list of Ops by symbolic      *)
(* execution of the operand stack.                                         *)
(*                                                                         *)
(* Encoding of the Rust data:                                              *)
(*   Value      <<"Undefined">>, <<"Null">>, <<"Bool", b>>, <<"I32", n>>,  *)
(*              <<"F32", f>>, <<"F64", f>>, <<"Str", s>>, <<"OpRes", i>>   *)
(*   PushValue  <<"Undefined">>, <<"Null">>, <<"Boolean", b>>,             *)
(*              <<"Sint32", n>>, <<"Float32", f>>, <<"Float64", f>>,       *)
(*              <<"String", s>>, <<"Constant", i>>, <<"Register", i>>      *)
(*   float f    <<"fin", m, e>> is m * 2^e with m odd (or m = 0, e = 0);   *)
(*              <<"nan", 0, 0>>; <<"inf", 1, 0>>, <<"inf", -1, 0>>         *)
(*   Action     <<"Play">>, <<"GotoFrame", n>>, <<"Push", values>>, ...    *)
(*   Op         <<"Play">>, <<"GetVar", s>>, <<"Call", v, args>>, ...      *)
(*   Option     <<"Some", x>>, <<"None">>                                  *)
(* Indices (OpRes, Constant, Register) are 0-based as in the source; TLA+  *)
(* sequences are 1-based, so Vec element i is sequence element i + 1.      *)
(***************************************************************************)
EXTENDS Integers, Sequences, FiniteSets, TLC

VARIABLES cfg, pc, block, consts, regs, stack, ops, result

vars == <<cfg, pc, block, consts, regs, stack, ops, result>>

(***************************************************************************)
(* Bounds of the checked inputs.                                           *)
(***************************************************************************)
MaxActions == 3

MaxCallActions == 4

MaxPoolActions == 4

MaxPairActions == 2

MaxFrameActions == 3

MaxCoerceActions == 2

(***************************************************************************)
(* Machine integers.                                                       *)
(***************************************************************************)
I32Max == 2147483647

I32Min == (-2147483647) - 1

U16Mod == 65536

F32Exact == 16777216

Pow2(k) == IF k <= 0 THEN 1 ELSE 2 ^ k

(***************************************************************************)
(* Floats.                                                                 *)
(***************************************************************************)
RECURSIVE Canon(_, _)
Canon(m, e) ==
    IF m = 0 THEN <<"fin", 0, 0>>
    ELSE IF m % 2 = 0 THEN Canon(m \div 2, e + 1)
    ELSE <<"fin", m, e>>

\* m * 2^e for e >= 0, saturated to the i32 range
RECURSIVE SatShl(_, _)
SatShl(m, e) ==
    IF e = 0 \/ m = 0 THEN m
    ELSE IF m > I32Max \div 2 THEN I32Max
    ELSE IF m < I32Min \div 2 THEN I32Min
    ELSE SatShl(2 * m, e - 1)

\* `x as i32` for a float x: truncation toward zero, saturating, NaN to 0
FloatToI32(f) ==
    IF f[1] = "nan" THEN 0
    ELSE IF f[1] = "inf" THEN (IF f[2] > 0 THEN I32Max ELSE I32Min)
    ELSE IF f[3] >= 0 THEN SatShl(f[2], f[3])
    ELSE IF f[2] >= 0 THEN f[2] \div Pow2(-f[3])
    ELSE -((-f[2]) \div Pow2(-f[3]))

\* `n as f64` for an i32 n: exact
I32ToF64(n) == Canon(n, 0)

\* number of low bits an integer of magnitude a loses in a 24-bit mantissa
RECURSIVE DropBits(_)
DropBits(a) == IF a < F32Exact THEN 0 ELSE 1 + DropBits(a \div 2)

\* `n as f32` for an i32 n: round to nearest, ties to even
I32ToF32(n) ==
    IF n = I32Min THEN <<"fin", -1, 31>>
    ELSE LET a    == IF n < 0 THEN -n ELSE n
             k    == DropBits(a)
             q    == a \div Pow2(k)
             r    == a % Pow2(k)
             half == Pow2(k - 1)
             up   == k > 0 /\ (r > half \/ (r = half /\ q % 2 = 1))
             q2   == IF up THEN q + 1 ELSE q
         IN  Canon(IF n < 0 THEN -q2 ELSE q2, k)

\* `x == y` on floats: NaN equals nothing
FloatEq(x, y) == x[1] # "nan" /\ y[1] # "nan" /\ x = y

(***************************************************************************)
(* impl Value                                                              *)
(***************************************************************************)
as_i32(v) ==
    IF v[1] = "I32" THEN <<"Some", v[2]>>
    ELSE IF v[1] = "F32" /\ FloatEq(v[2], I32ToF32(FloatToI32(v[2])))
        THEN <<"Some", FloatToI32(v[2])>>
    ELSE IF v[1] = "F64" /\ FloatEq(v[2], I32ToF64(FloatToI32(v[2])))
        THEN <<"Some", FloatToI32(v[2])>>
    ELSE <<"None">>

as_str(v) == IF v[1] = "Str" THEN <<"Some", v[2]>> ELSE <<"None">>

OpRes(i) == <<"OpRes", i>>

(***************************************************************************)
(* Vec helpers.                                                            *)
(***************************************************************************)
Last(s) == s[Len(s)]

Front(s) == SubSeq(s, 1, Len(s) - 1)

\* the values that n successive pops return, first popped first
Popped(st, n) == [k \in 1..n |-> st[Len(st) + 1 - k]]

\* the stack left after n pops
Drop(st, n) == SubSeq(st, 1, Len(st) - n)

(***************************************************************************)
(* Outcome of one iteration of the loop over block.actions: the loop goes  *)
(* on ("next"), is left by `break` ("break"), or the thread panics.        *)
(***************************************************************************)
Next_(cs, st, os) == [ctl |-> "next", consts |-> cs, stack |-> st, ops |-> os]

Break_(cs, st, os) == [ctl |-> "break", consts |-> cs, stack |-> st, ops |-> os]

Panic_ == [ctl |-> "panic", consts |-> <<>>, stack |-> <<>>, ops |-> <<>>]

\* the simple arms: one op, nothing else
PlayArm(cs, st, os) == Next_(cs, st, Append(os, <<"Play">>))

StopArm(cs, st, os) == Next_(cs, st, Append(os, <<"Stop">>))

GotoFrameArm(cs, st, os, frame) ==
    Next_(cs, st, Append(os, <<"GotoFrame", frame % U16Mod>>))

GotoLabelArm_pop(cs, st, os, label) ==
    Next_(cs, IF st = <<>> THEN st ELSE Front(st), Append(os, <<"GotoLabel", label>>))

GotoLabelArm(cs, st, os, label) == Next_(cs, st, Append(os, <<"GotoLabel", label>>))

GetUrlArm_result(cs, st, os, url, target) ==
    Next_(cs, Append(st, OpRes(Len(os))), Append(os, <<"GetUrl", url, target>>))

GetUrlArm(cs, st, os, url, target) ==
    Next_(cs, st, Append(os, <<"GetUrl", url, target>>))

ConstantPoolArm_extend(cs, st, os, pool) == Next_(cs \o pool, st, os)

ConstantPoolArm(cs, st, os, pool) == Next_(pool, st, os)

\* the closure of the Push arm: PushValue to Value
PushIndexOk(cs, rs, pv) ==
    /\ pv[1] = "Constant" => pv[2] < Len(cs)
    /\ pv[1] = "Register" => pv[2] < Len(rs)

PushMap(cs, rs, pv) ==
    CASE pv[1] = "Undefined" -> <<"Undefined">>
      [] pv[1] = "Null"      -> <<"Null">>
      [] pv[1] = "Boolean"   -> <<"Bool", pv[2]>>
      [] pv[1] = "Sint32"    -> <<"I32", pv[2]>>
      [] pv[1] = "Float32"   -> <<"F32", pv[2]>>
      [] pv[1] = "Float64"   -> <<"F64", pv[2]>>
      [] pv[1] = "String"    -> <<"Str", pv[2]>>
      [] pv[1] = "Constant"  -> <<"Str", cs[pv[2] + 1]>>
      [] pv[1] = "Register"  -> rs[pv[2] + 1]

PushArm_under(cs, rs, st, os, values) ==
    IF \E k \in 1..Len(values) : ~PushIndexOk(cs, rs, values[k])
    THEN Panic_
    ELSE Next_(cs, [k \in 1..Len(values) |-> PushMap(cs, rs, values[k])] \o st, os)

\* a variant in which a bad index reads as Undefined
PushArm_default(cs, rs, st, os, values) ==
    Next_(cs, st \o [k \in 1..Len(values) |->
                        IF PushIndexOk(cs, rs, values[k])
                        THEN PushMap(cs, rs, values[k])
                        ELSE <<"Undefined">>], os)

PushArm(cs, rs, st, os, values) ==
    IF \E k \in 1..Len(values) : ~PushIndexOk(cs, rs, values[k])
    THEN Panic_
    ELSE Next_(cs, st \o [k \in 1..Len(values) |-> PushMap(cs, rs, values[k])], os)

\* stack.pop() with the Option dropped: nothing happens on an empty stack
PopArm(cs, st, os) == Next_(cs, IF st = <<>> THEN st ELSE Front(st), os)

\* variants of the arms with a seeded fault
GetVariableArm_ahead(cs, st, os) ==
    IF Len(st) < 1 THEN Panic_
    ELSE IF Last(st)[1] = "Str"
        THEN Next_(cs, Append(Front(st), OpRes(Len(os) + 1)),
                   Append(os, <<"GetVar", Last(st)[2]>>))
        ELSE Break_(cs, Front(st), os)

GetVariableArm(cs, st, os) ==
    IF Len(st) < 1 THEN Panic_
    ELSE IF Last(st)[1] = "Str"
        THEN Next_(cs, Append(Front(st), OpRes(Len(os))),
                   Append(os, <<"GetVar", Last(st)[2]>>))
        ELSE Break_(cs, Front(st), os)

SetVariableArm_lenient(cs, st, os) ==
    IF Len(st) < 2 THEN Break_(cs, <<>>, os)
    ELSE LET value == st[Len(st)]
             name  == st[Len(st) - 1]
             rest  == Drop(st, 2)
         IN  IF name[1] = "Str"
             THEN Next_(cs, Append(rest, OpRes(Len(os))),
                        Append(os, <<"SetVar", name[2], value>>))
             ELSE Break_(cs, rest, os)

SetVariableArm_swapped(cs, st, os) ==
    IF Len(st) < 2 THEN Panic_
    ELSE LET name  == st[Len(st)]
             value == st[Len(st) - 1]
             rest  == Drop(st, 2)
         IN  IF name[1] = "Str"
             THEN Next_(cs, Append(rest, OpRes(Len(os))),
                        Append(os, <<"SetVar", name[2], value>>))
             ELSE Break_(cs, rest, os)

SetVariableArm_keep(cs, st, os) ==
    IF Len(st) < 2 THEN Panic_
    ELSE LET value == st[Len(st)]
             name  == st[Len(st) - 1]
             rest  == Drop(st, 2)
         IN  IF name[1] = "Str"
             THEN Next_(cs, rest \o <<value, OpRes(Len(os))>>,
                        Append(os, <<"SetVar", name[2], value>>))
             ELSE Break_(cs, rest, os)

SetVariableArm(cs, st, os) ==
    IF Len(st) < 2 THEN Panic_
    ELSE LET value == st[Len(st)]
             name  == st[Len(st) - 1]
             rest  == Drop(st, 2)
         IN  IF name[1] = "Str"
             THEN Next_(cs, Append(rest, OpRes(Len(os))),
                        Append(os, <<"SetVar", name[2], value>>))
             ELSE Break_(cs, rest, os)

ArgCount_magnitude(n) == IF n < 0 THEN -n ELSE n

\* (0..arg_count).map(|_| stack.pop().unwrap()).collect()
ArgCount(n) == IF n < 0 THEN 0 ELSE n

CallFunctionArm_pushorder(cs, st, os) ==
    IF Len(st) < 2 THEN Panic_
    ELSE LET name      == st[Len(st)]
             arg_count == as_i32(st[Len(st) - 1])
             rest      == Drop(st, 2)
         IN  IF name[1] = "Str" /\ arg_count[1] = "Some"
             THEN LET n == ArgCount(arg_count[2])
                  IN  IF Len(rest) < n THEN Panic_
                      ELSE LET os1 == Append(os, <<"GetVar", name[2]>>)
                               os2 == Append(os1, <<"Call", OpRes(Len(os1) - 1),
                                                    SubSeq(rest, Len(rest) - n + 1, Len(rest))>>)
                           IN  Next_(cs, Append(Drop(rest, n), OpRes(Len(os2) - 1)), os2)
             ELSE Break_(cs, rest, os)

CallFunctionArm(cs, st, os) ==
    IF Len(st) < 2 THEN Panic_
    ELSE LET name      == st[Len(st)]
             arg_count == as_i32(st[Len(st) - 1])
             rest      == Drop(st, 2)
         IN  IF name[1] = "Str" /\ arg_count[1] = "Some"
             THEN LET n == ArgCount(arg_count[2])
                  IN  IF Len(rest) < n THEN Panic_
                      ELSE LET os1 == Append(os, <<"GetVar", name[2]>>)
                               os2 == Append(os1, <<"Call", OpRes(Len(os1) - 1),
                                                    Popped(rest, n)>>)
                           IN  Next_(cs, Append(Drop(rest, n), OpRes(Len(os2) - 1)), os2)
             ELSE Break_(cs, rest, os)

\* if let Value::Str(s) = &name { if s.is_empty() { name = Value::Undefined } }
NormalizeName_keep(name) == name

NormalizeName(name) ==
    IF name[1] = "Str" /\ name[2] = "" THEN <<"Undefined">> ELSE name

CallMethodArm_thisfirst(cs, st, os) ==
    IF Len(st) < 3 THEN Panic_
    ELSE LET this      == st[Len(st)]
             name      == NormalizeName(st[Len(st) - 1])
             arg_count == as_i32(st[Len(st) - 2])
             rest      == Drop(st, 3)
         IN  IF name[1] \in {"Undefined", "Str"} /\ arg_count[1] = "Some"
             THEN LET n == ArgCount(arg_count[2])
                  IN  IF Len(rest) < n THEN Panic_
                      ELSE LET op == IF name[1] = "Undefined"
                                     THEN <<"Call", this, Popped(rest, n)>>
                                     ELSE <<"CallMethod", this, name[2], Popped(rest, n)>>
                           IN  Next_(cs, Append(Drop(rest, n), OpRes(Len(os))),
                                     Append(os, op))
             ELSE Break_(cs, rest, os)

CallMethodArm(cs, st, os) ==
    IF Len(st) < 3 THEN Panic_
    ELSE LET name      == NormalizeName(st[Len(st)])
             this      == st[Len(st) - 1]
             arg_count == as_i32(st[Len(st) - 2])
             rest      == Drop(st, 3)
         IN  IF name[1] \in {"Undefined", "Str"} /\ arg_count[1] = "Some"
             THEN LET n == ArgCount(arg_count[2])
                  IN  IF Len(rest) < n THEN Panic_
                      ELSE LET op == IF name[1] = "Undefined"
                                     THEN <<"Call", this, Popped(rest, n)>>
                                     ELSE <<"CallMethod", this, name[2], Popped(rest, n)>>
                           IN  Next_(cs, Append(Drop(rest, n), OpRes(Len(os))),
                                     Append(os, op))
             ELSE Break_(cs, rest, os)

UnknownArm_continue(cs, st, os) == Next_(cs, st, os)

UnknownArm(cs, st, os) == Break_(cs, st, os)

(***************************************************************************)
(* The state machine: one call of Code::compile per element of DOMAIN pc.  *)
(*   pc[c]      "start", "loop", "flow", "ret", "done" or "panic"          *)
(*   cfg[c]     the argument, a non-empty sequence of blocks (Vec1)        *)
(*   block[c]   the block taken out of cfg; block.actions is the iterator  *)
(*              of the for loop, i.e. the actions not yet visited          *)
(*   result[c]  <<>> until the call returns, then <<Code>>                 *)
(***************************************************************************)
Calls == DOMAIN pc

NoBlock == [actions |-> <<>>, flow |-> "none"]

FirstBlock_last(g) == g[Len(g)]

\* the block compile takes out of the graph: cfg.blocks.into_vec().remove(0)
FirstBlock(g) == g[1]

\* a variant in which the locals are storage shared by all calls
Enter_shared(c) ==
    /\ pc[c] = "start"
    /\ pc' = [pc EXCEPT ![c] = "loop"]
    /\ \E d \in Calls :
           /\ d # c \/ Calls = {c}
           /\ consts' = [consts EXCEPT ![c] = consts[d]]
           /\ regs' = [regs EXCEPT ![c] = regs[d]]
           /\ stack' = [stack EXCEPT ![c] = stack[d]]
           /\ ops' = [ops EXCEPT ![c] = ops[d]]
    /\ block' = [block EXCEPT ![c] = FirstBlock(cfg[c])]
    /\ UNCHANGED <<cfg, result>>

\* lines 66-78: fresh locals, first block
Enter(c) ==
    /\ pc[c] = "start"
    /\ pc' = [pc EXCEPT ![c] = "loop"]
    /\ consts' = [consts EXCEPT ![c] = <<>>]
    /\ regs' = [regs EXCEPT ![c] = <<>>]
    /\ stack' = [stack EXCEPT ![c] = <<>>]
    /\ ops' = [ops EXCEPT ![c] = <<>>]
    /\ block' = [block EXCEPT ![c] = FirstBlock(cfg[c])]
    /\ UNCHANGED <<cfg, result>>

AtAction(c, kind) ==
    /\ pc[c] = "loop"
    /\ block[c].actions # <<>>
    /\ Head(block[c].actions)[1] = kind

Action(c) == Head(block[c].actions)

\* the iterator has yielded the action; r is what the arm made of it.
\* A panic unwinds the call: its locals are dropped and nothing is returned.
Commit(c, r) ==
    /\ pc' = [pc EXCEPT ![c] = CASE r.ctl = "next" -> "loop"
                                 [] r.ctl = "break" -> "flow"
                                 [] r.ctl = "panic" -> "panic"]
    /\ block' = [block EXCEPT ![c].actions = Tail(@)]
    /\ consts' = [consts EXCEPT ![c] = r.consts]
    /\ stack' = [stack EXCEPT ![c] = r.stack]
    /\ ops' = [ops EXCEPT ![c] = r.ops]
    /\ UNCHANGED <<cfg, regs, result>>

DoPlay(c) == AtAction(c, "Play") /\ Commit(c, PlayArm(consts[c], stack[c], ops[c]))

DoStop(c) == AtAction(c, "Stop") /\ Commit(c, StopArm(consts[c], stack[c], ops[c]))

DoGotoFrame(c) ==
    /\ AtAction(c, "GotoFrame")
    /\ Commit(c, GotoFrameArm(consts[c], stack[c], ops[c], Action(c)[2]))

DoGotoLabel(c) ==
    /\ AtAction(c, "GotoLabel")
    /\ Commit(c, GotoLabelArm(consts[c], stack[c], ops[c], Action(c)[2]))

DoGetUrl(c) ==
    /\ AtAction(c, "GetUrl")
    /\ Commit(c, GetUrlArm(consts[c], stack[c], ops[c], Action(c)[2], Action(c)[3]))

DoConstantPool(c) ==
    /\ AtAction(c, "ConstantPool")
    /\ Commit(c, ConstantPoolArm(consts[c], stack[c], ops[c], Action(c)[2]))

DoPush(c) ==
    /\ AtAction(c, "Push")
    /\ Commit(c, PushArm(consts[c], regs[c], stack[c], ops[c], Action(c)[2]))

DoPop(c) == AtAction(c, "Pop") /\ Commit(c, PopArm(consts[c], stack[c], ops[c]))

DoGetVariable(c) ==
    /\ AtAction(c, "GetVariable")
    /\ Commit(c, GetVariableArm(consts[c], stack[c], ops[c]))

DoSetVariable(c) ==
    /\ AtAction(c, "SetVariable")
    /\ Commit(c, SetVariableArm(consts[c], stack[c], ops[c]))

DoCallFunction(c) ==
    /\ AtAction(c, "CallFunction")
    /\ Commit(c, CallFunctionArm(consts[c], stack[c], ops[c]))

DoCallMethod(c) ==
    /\ AtAction(c, "CallMethod")
    /\ Commit(c, CallMethodArm(consts[c], stack[c], ops[c]))

HandledKinds ==
    {"Play", "Stop", "GotoFrame", "GotoLabel", "GetUrl", "ConstantPool", "Push",
     "Pop", "GetVariable", "SetVariable", "CallFunction", "CallMethod"}

DoUnknown(c) ==
    /\ pc[c] = "loop"
    /\ block[c].actions # <<>>
    /\ Action(c)[1] \notin HandledKinds
    /\ Commit(c, UnknownArm(consts[c], stack[c], ops[c]))

\* the for loop ends: the iterator is exhausted
LoopExit(c) ==
    /\ pc[c] = "loop"
    /\ block[c].actions = <<>>
    /\ pc' = [pc EXCEPT ![c] = "flow"]
    /\ UNCHANGED <<cfg, block, consts, regs, stack, ops, result>>

\* match block.flow
FlowStack(flow, st) ==
    IF flow = "WaitForFrame2" /\ st # <<>> THEN Front(st) ELSE st

FlowWaitForFrame(c) ==
    /\ pc[c] = "flow"
    /\ block[c].flow = "WaitForFrame"
    /\ pc' = [pc EXCEPT ![c] = "ret"]
    /\ stack' = [stack EXCEPT ![c] = FlowStack(block[c].flow, @)]
    /\ UNCHANGED <<cfg, block, consts, regs, ops, result>>

\* a variant in which the epilogue unwraps what it pops
FlowWaitForFrame2_unwrap(c) ==
    /\ pc[c] = "flow"
    /\ block[c].flow = "WaitForFrame2"
    /\ pc' = [pc EXCEPT ![c] = IF stack[c] = <<>> THEN "panic" ELSE "ret"]
    /\ stack' = [stack EXCEPT ![c] = FlowStack(block[c].flow, @)]
    /\ ops' = [ops EXCEPT ![c] = IF stack[c] = <<>> THEN <<>> ELSE @]
    /\ UNCHANGED <<cfg, block, consts, regs, result>>

FlowWaitForFrame2(c) ==
    /\ pc[c] = "flow"
    /\ block[c].flow = "WaitForFrame2"
    /\ pc' = [pc EXCEPT ![c] = "ret"]
    /\ stack' = [stack EXCEPT ![c] = FlowStack(block[c].flow, @)]
    /\ UNCHANGED <<cfg, block, consts, regs, ops, result>>

FlowUnknown(c) ==
    /\ pc[c] = "flow"
    /\ block[c].flow \notin {"WaitForFrame", "WaitForFrame2"}
    /\ pc' = [pc EXCEPT ![c] = "ret"]
    /\ stack' = [stack EXCEPT ![c] = FlowStack(block[c].flow, @)]
    /\ UNCHANGED <<cfg, block, consts, regs, ops, result>>

\* Code { ops }: ops moves into the result, the other locals are dropped
Return(c) ==
    /\ pc[c] = "ret"
    /\ pc' = [pc EXCEPT ![c] = "done"]
    /\ result' = [result EXCEPT ![c] = <<[ops |-> ops[c]]>>]
    /\ ops' = [ops EXCEPT ![c] = <<>>]
    /\ consts' = [consts EXCEPT ![c] = <<>>]
    /\ regs' = [regs EXCEPT ![c] = <<>>]
    /\ stack' = [stack EXCEPT ![c] = <<>>]
    /\ block' = [block EXCEPT ![c] = NoBlock]
    /\ UNCHANGED cfg

(***************************************************************************)
(* Inputs.                                                                 *)
(***************************************************************************)
RECURSIVE SeqsUpTo(_, _)
SeqsUpTo(S, n) ==
    IF n = 0 THEN {<<>>}
    ELSE LET shorter == SeqsUpTo(S, n - 1)
         IN  shorter \cup {Append(s, x) : s \in {t \in shorter : Len(t) = n - 1}, x \in S}

Flows == {"WaitForFrame", "WaitForFrame2", "Simple"}

F_1_5 == <<"fin", 3, -1>>

F_2 == <<"fin", 1, 1>>

Push(values) == <<"Push", values>>

SimpleActions ==
    {<<"Play">>, <<"Stop">>, <<"GotoFrame", 3>>, <<"GotoLabel", "l">>,
     <<"GetUrl", "u", "t">>}

StackActions ==
    {<<"Pop">>, <<"GetVariable">>, <<"SetVariable">>, <<"CallFunction">>,
     <<"CallMethod">>, <<"Add">>}

InitCalls(ids) ==
    /\ pc = [c \in ids |-> "start"]
    /\ block = [c \in ids |-> NoBlock]
    /\ consts = [c \in ids |-> <<>>]
    /\ regs = [c \in ids |-> <<>>]
    /\ stack = [c \in ids |-> <<>>]
    /\ ops = [c \in ids |-> <<>>]
    /\ result = [c \in ids |-> <<>>]

(***************************************************************************)
(* Spec: one call of compile on a one-block graph over every action kind.  *)
(***************************************************************************)
Pushes ==
    {Push(<<<<"String", "x">>, <<"String", "f">>>>),
     Push(<<<<"Sint32", 1>>, <<"Sint32", 1>>, <<"String", "f">>>>),
     Push(<<<<"Undefined">>>>),
     Push(<<<<"Constant", 0>>>>)}

Alphabet ==
    SimpleActions \cup StackActions \cup Pushes \cup {<<"ConstantPool", <<"g">>>>}

Blocks == {[actions |-> a, flow |-> f] : a \in SeqsUpTo(Alphabet, MaxActions), f \in Flows}

Init ==
    /\ \E b \in Blocks : cfg = [c \in {1} |-> <<b>>]
    /\ InitCalls({1})

Step(c) ==
    \/ Enter(c)
    \/ DoPlay(c)
    \/ DoStop(c)
    \/ DoGotoFrame(c)
    \/ DoGotoLabel(c)
    \/ DoGetUrl(c)
    \/ DoConstantPool(c)
    \/ DoPush(c)
    \/ DoPop(c)
    \/ DoGetVariable(c)
    \/ DoSetVariable(c)
    \/ DoCallFunction(c)
    \/ DoCallMethod(c)
    \/ DoUnknown(c)
    \/ LoopExit(c)
    \/ FlowWaitForFrame(c)
    \/ FlowWaitForFrame2(c)
    \/ FlowUnknown(c)
    \/ Return(c)

Next == \E c \in Calls : Step(c)

Spec == Init /\ [][Next]_vars

(***************************************************************************)
(* SpecCall: one call of compile on blocks of pushes, variable reads and   *)
(* calls; the only flow marker is one compile does not know.               *)
(***************************************************************************)
F_1 == <<"fin", 1, 0>>

CallPushes ==
    {Push(<<<<"Sint32", 1>>, <<"Sint32", 2>>, <<"Sint32", 2>>, <<"String", "f">>>>),
     Push(<<<<"Sint32", 0>>, <<"String", "f">>>>),
     Push(<<<<"Sint32", -1>>, <<"Sint32", -1>>, <<"String", "f">>>>),
     Push(<<<<"Sint32", 7>>, <<"Float64", F_1>>, <<"String", "o">>, <<"String", "">>>>),
     Push(<<<<"Sint32", 7>>, <<"Sint32", 1>>, <<"String", "o">>, <<"Undefined">>>>),
     Push(<<<<"Sint32", 7>>, <<"Sint32", 8>>, <<"Sint32", 2>>, <<"String", "o">>,
            <<"String", "m">>>>),
     Push(<<<<"String", "">>>>),
     Push(<<<<"Undefined">>>>)}

CallAlphabet ==
    {<<"GetVariable">>, <<"CallFunction">>, <<"CallMethod">>} \cup CallPushes

CallBlocks ==
    {[actions |-> a, flow |-> "Simple"] : a \in SeqsUpTo(CallAlphabet, MaxCallActions)}

InitCall ==
    /\ \E b \in CallBlocks : cfg = [c \in {1} |-> <<b>>]
    /\ InitCalls({1})

StepCall(c) ==
    \/ Enter(c)
    \/ DoPush(c)
    \/ DoGetVariable(c)
    \/ DoCallFunction(c)
    \/ DoCallMethod(c)
    \/ LoopExit(c)
    \/ FlowUnknown(c)
    \/ Return(c)

NextCall == \E c \in Calls : StepCall(c)

SpecCall == InitCall /\ [][NextCall]_vars

(***************************************************************************)
(* SpecPool: one call of compile on blocks of constant pools, pushes of     *)
(* literals and of pool constants, and variable reads.                     *)
(***************************************************************************)
PoolActions == {<<"ConstantPool", <<"a", "b">>>>, <<"ConstantPool", <<"c">>>>}

LiteralPushes ==
    {Push(<<<<"Undefined">>, <<"Null">>>>),
     Push(<<<<"Boolean", TRUE>>, <<"Sint32", 5>>, <<"Float32", F_1_5>>>>),
     Push(<<<<"Float64", F_2>>, <<"String", "s">>>>)}

ConstantPushes ==
    {Push(<<<<"Constant", 0>>>>), Push(<<<<"Constant", 1>>, <<"Constant", 0>>>>)}

RegisterPushes ==
    {Push(<<<<"String", "s">>, <<"Register", 0>>>>), Push(<<<<"Register", 2>>>>)}

PoolAlphabet ==
    PoolActions \cup LiteralPushes \cup ConstantPushes \cup RegisterPushes
        \cup {<<"GetVariable">>}

PoolBlocks ==
    {[actions |-> a, flow |-> "WaitForFrame"] : a \in SeqsUpTo(PoolAlphabet, MaxPoolActions)}

InitPool ==
    /\ \E b \in PoolBlocks : cfg = [c \in {1} |-> <<b>>]
    /\ InitCalls({1})

StepPool(c) ==
    \/ Enter(c)
    \/ DoConstantPool(c)
    \/ DoPush(c)
    \/ DoGetVariable(c)
    \/ LoopExit(c)
    \/ FlowWaitForFrame(c)
    \/ Return(c)

NextPool == \E c \in Calls : StepPool(c)

SpecPool == InitPool /\ [][NextPool]_vars

(***************************************************************************)
(* SpecPair: two calls of compile, interleaved in every way.  Call 1 gets  *)
(* a one-block graph that ends in WaitForFrame2; call 2 gets the same      *)
(* graph, or the same block with another flow marker, or the same block    *)
(* followed by further blocks.                                             *)
(***************************************************************************)
PairBlocks ==
    {[actions |-> a, flow |-> "WaitForFrame2"] : a \in SeqsUpTo(Alphabet, MaxPairActions)}

LaterBlocks ==
    {<<[actions |-> <<<<"Stop">>, <<"Pop">>>>, flow |-> "Simple"]>>,
     <<[actions |-> <<<<"GetVariable">>>>, flow |-> "WaitForFrame"],
       [actions |-> <<<<"Play">>>>, flow |-> "WaitForFrame2"]>>}

Variants(b) ==
    {<<[b EXCEPT !.flow = f]>> : f \in Flows} \cup {<<b>> \o later : later \in LaterBlocks}

InitPair ==
    /\ \E b \in PairBlocks : \E g \in Variants(b) : cfg = <<<<b>>, g>>
    /\ InitCalls({1, 2})

SpecPair == InitPair /\ [][Next]_vars

(***************************************************************************)
(* SpecFrame: one call of compile on blocks of GotoFrame actions whose     *)
(* frame numbers lie on both sides of the 16-bit limit of Frame.           *)
(***************************************************************************)
FrameActions ==
    {<<"GotoFrame", 0>>, <<"GotoFrame", 3>>, <<"GotoFrame", 65535>>,
     <<"GotoFrame", 65536>>, <<"GotoFrame", 65539>>}

FrameBlocks ==
    {[actions |-> a, flow |-> "WaitForFrame"] : a \in SeqsUpTo(FrameActions, MaxFrameActions)}

InitFrame ==
    /\ \E b \in FrameBlocks : cfg = [c \in {1} |-> <<b>>]
    /\ InitCalls({1})

StepFrame(c) ==
    \/ Enter(c)
    \/ DoGotoFrame(c)
    \/ LoopExit(c)
    \/ FlowWaitForFrame(c)
    \/ Return(c)

NextFrame == \E c \in Calls : StepFrame(c)

SpecFrame == InitFrame /\ [][NextFrame]_vars

(***************************************************************************)
(* SpecCoerce: one call of compile on blocks that first put one value of   *)
(* any kind on the stack (an OpRes by a variable read) and then push names *)
(* and call, so that the value is taken as an argument count.              *)
(***************************************************************************)
F_NaN == <<"nan", 0, 0>>

F_Inf == <<"inf", 1, 0>>

F_2P31 == <<"fin", 1, 31>>

F_M2P31 == <<"fin", -1, 31>>

F_2P32 == <<"fin", 1, 32>>

F_I32Max == <<"fin", 2147483647, 0>>

CountValues ==
    {<<"Undefined">>, <<"Null">>, <<"Boolean", TRUE>>, <<"String", "2">>,
     <<"Sint32", 0>>, <<"Sint32", -1>>,
     <<"Float32", F_1>>, <<"Float32", F_1_5>>, <<"Float32", F_2P31>>,
     <<"Float32", F_M2P31>>, <<"Float32", F_2P32>>, <<"Float32", F_NaN>>,
     <<"Float32", F_Inf>>,
     <<"Float64", F_1>>, <<"Float64", F_1_5>>, <<"Float64", F_2P31>>,
     <<"Float64", F_M2P31>>, <<"Float64", F_I32Max>>, <<"Float64", F_NaN>>,
     <<"Float64", F_Inf>>}

CountPrefixes ==
    {<<Push(<<v>>)>> : v \in CountValues}
        \cup {<<Push(<<<<"String", "f">>>>), <<"GetVariable">>>>}

CoerceTail ==
    {Push(<<<<"String", "f">>>>), Push(<<<<"String", "o">>, <<"String", "m">>>>),
     <<"CallFunction">>, <<"CallMethod">>}

CoerceBlocks ==
    {[actions |-> p \o t, flow |-> "Simple"] :
        p \in CountPrefixes, t \in SeqsUpTo(CoerceTail, MaxCoerceActions)}

InitCoerce ==
    /\ \E b \in CoerceBlocks : cfg = [c \in {1} |-> <<b>>]
    /\ InitCalls({1})

SpecCoerce == InitCoerce /\ [][NextCall]_vars

(***************************************************************************)
(* Vocabulary of the properties.                                           *)
(***************************************************************************)
\* the Values an op holds as operands
OpValues(op) ==
    CASE op[1] = "SetVar"     -> <<op[3]>>
      [] op[1] = "Call"       -> <<op[2]>> \o op[3]
      [] op[1] = "CallMethod" -> <<op[2]>> \o op[4]
      [] OTHER                -> <<>>

\* every OpRes among the operands of os[j] points below position j
BackRefsOnly(os) ==
    \A j \in 1..Len(os) :
        \A k \in 1..Len(OpValues(os[j])) :
            LET v == OpValues(os[j])[k]
            IN  v[1] = "OpRes" => (v[2] >= 0 /\ v[2] < j - 1)

\* the actions of the compiled block and how many the loop has taken
Input(c) == cfg[c][1].actions

Taken(c) == Len(Input(c)) - Len(block[c].actions)

InLoop(c) == pc[c] = "loop" /\ block[c].actions # <<>>

\* call c takes a step
StepOf(c) == pc'[c] # pc[c] \/ block'[c] # block[c]

Coerces(v) == as_i32(v)[1] = "Some"

Count(v) == IF as_i32(v)[2] < 0 THEN 0 ELSE as_i32(v)[2]

\* C1: no forward reference: an OpRes(i) operand of the op at position j has
\* i < j, and an OpRes(i) on the stack has i < the number of emitted ops, in
\* every state of the translation and in the returned Code.
C1_NoForwardRef ==
    \A c \in Calls :
        /\ BackRefsOnly(ops[c])
        /\ \A k \in 1..Len(stack[c]) :
               stack[c][k][1] = "OpRes" =>
                   (stack[c][k][2] >= 0 /\ stack[c][k][2] < Len(ops[c]))
        /\ \A r \in 1..Len(result[c]) : BackRefsOnly(result[c][r].ops)

C1_Witness ==
    \E c \in Calls :
        /\ ops[c] = <<<<"GetVar", "f">>, <<"SetVar", "x", OpRes(0)>>>>
        /\ stack[c] = <<OpRes(1)>>

\* the soft conditions of the claim, on the action about to be processed
SoftCondition(a, st) ==
    \/ a[1] = "GetVariable" /\ Len(st) >= 1 /\ st[Len(st)][1] # "Str"
    \/ a[1] = "SetVariable" /\ Len(st) >= 2 /\ st[Len(st) - 1][1] # "Str"
    \/ /\ a[1] = "CallFunction"
       /\ Len(st) >= 2
       /\ (st[Len(st)][1] # "Str" \/ ~Coerces(st[Len(st) - 1]))
    \/ /\ a[1] = "CallMethod"
       /\ Len(st) >= 3
       /\ (st[Len(st)][1] \notin {"Str", "Undefined"} \/ ~Coerces(st[Len(st) - 2]))
    \/ a[1] \notin HandledKinds

\* C2: an action that hits a soft condition emits no op and ends the loop;
\* after the loop no action is taken from the block and no op is added, and
\* compile returns the ops emitted before the failing action.
C2_BailOutTruncates ==
    [][\A c \in Calls :
          /\ (InLoop(c) /\ SoftCondition(Action(c), stack[c]) /\ StepOf(c)) =>
                 (ops'[c] = ops[c] /\ pc'[c] = "flow")
          /\ (pc[c] = "flow" /\ StepOf(c)) =>
                 (ops'[c] = ops[c] /\ block'[c].actions = block[c].actions
                      /\ pc'[c] = "ret")
          /\ (pc[c] = "ret" /\ StepOf(c)) =>
                 (pc'[c] = "done" /\ result'[c] = <<[ops |-> ops[c]]>>)]_vars

C2_Witness ==
    \E c \in Calls :
        /\ pc[c] = "done"
        /\ Len(Input(c)) = 3
        /\ Input(c)[2] = <<"Add">>
        /\ result[c] = <<[ops |-> <<<<"Play">>>>]>>

\* some pop of the step call c is about to take finds the stack empty
UnwrappedUnderflow(a, st) ==
    \/ a[1] = "GetVariable" /\ Len(st) < 1
    \/ a[1] = "SetVariable" /\ Len(st) < 2
    \/ /\ a[1] = "CallFunction"
       /\ \/ Len(st) < 2
          \/ /\ st[Len(st)][1] = "Str"
             /\ Coerces(st[Len(st) - 1])
             /\ Len(st) - 2 < Count(st[Len(st) - 1])
    \/ /\ a[1] = "CallMethod"
       /\ \/ Len(st) < 3
          \/ /\ st[Len(st)][1] \in {"Str", "Undefined"}
             /\ Coerces(st[Len(st) - 2])
             /\ Len(st) - 3 < Count(st[Len(st) - 2])

Underflow(c) ==
    \/ InLoop(c) /\ UnwrappedUnderflow(Action(c), stack[c])
    \/ InLoop(c) /\ Action(c)[1] = "Pop" /\ stack[c] = <<>>
    \/ pc[c] = "flow" /\ block[c].flow = "WaitForFrame2" /\ stack[c] = <<>>

\* C7 as stated: every pop of an empty stack ends the translation abnormally.
C7_EveryUnderflowFatal ==
    [][\A c \in Calls : (Underflow(c) /\ StepOf(c)) => pc'[c] = "panic"]_vars

\* C7, amended: an underflow in GetVariable, SetVariable, CallFunction or
\* CallMethod (the collection of the call arguments included) ends the
\* translation abnormally and no Code is returned; the Pop action and the
\* WaitForFrame2 epilogue on an empty stack do nothing and the translation
\* goes on to return its Code.
C7_UnwrappedUnderflowFatal ==
    [][\A c \in Calls :
          /\ (InLoop(c) /\ UnwrappedUnderflow(Action(c), stack[c]) /\ StepOf(c)) =>
                 (pc'[c] = "panic" /\ result'[c] = <<>>)
          /\ pc[c] = "panic" => (pc'[c] = "panic" /\ result'[c] = <<>>)
          /\ (InLoop(c) /\ Action(c)[1] = "Pop" /\ stack[c] = <<>> /\ StepOf(c)) =>
                 (pc'[c] = "loop" /\ stack'[c] = <<>> /\ ops'[c] = ops[c])
          /\ (pc[c] = "flow" /\ block[c].flow = "WaitForFrame2" /\ stack[c] = <<>>
                  /\ StepOf(c)) =>
                 (pc'[c] = "ret" /\ stack'[c] = <<>> /\ ops'[c] = ops[c])]_vars

C7_Witness ==
    \E c \in Calls :
        /\ pc[c] = "panic"
        /\ Taken(c) = 2
        /\ Input(c)[1] = Push(<<<<"Undefined">>>>)
        /\ Input(c)[2] = <<"SetVariable">>

\* C3: CallFunction with a String name and a count that coerces to n >= 0,
\* with n values below them, pops the n values, appends GetVar(name) at
\* position k and Call(OpRes(k), args) at k + 1, args in pop order, and
\* leaves OpRes(k + 1) on top of what is left of the stack.
C3_CallFunction ==
    [][\A c \in Calls :
          LET st == stack[c]
              d  == Len(st)
          IN  (/\ InLoop(c)
               /\ Action(c)[1] = "CallFunction"
               /\ d >= 2
               /\ st[d][1] = "Str"
               /\ Coerces(st[d - 1])
               /\ as_i32(st[d - 1])[2] >= 0
               /\ d - 2 >= as_i32(st[d - 1])[2]
               /\ StepOf(c)) =>
                  LET n == as_i32(st[d - 1])[2]
                      k == Len(ops[c])
                  IN  /\ ops'[c] = ops[c] \o
                             << <<"GetVar", st[d][2]>>,
                                <<"Call", <<"OpRes", k>>, [i \in 1..n |-> st[d - 1 - i]]>> >>
                      /\ stack'[c] = Append(SubSeq(st, 1, d - 2 - n), <<"OpRes", k + 1>>)
                      /\ pc'[c] = "loop"]_vars

C3_Witness ==
    \E c \in Calls :
        /\ Taken(c) = 2
        /\ Input(c)[1] =
               Push(<<<<"Sint32", 1>>, <<"Sint32", 2>>, <<"Sint32", 2>>, <<"String", "f">>>>)
        /\ ops[c] = << <<"GetVar", "f">>,
                       <<"Call", <<"OpRes", 0>>, << <<"I32", 2>>, <<"I32", 1>> >> >> >>
        /\ stack[c] = << <<"OpRes", 1>> >>

\* C4: CallMethod with the empty String as method name and CallMethod with
\* Undefined as method name do the same thing: for any receiver, coercible
\* count n and n argument values, one op Call(receiver, args) is appended and
\* its OpRes pushed; no CallMethod op is emitted.
C4_EmptyNameIsUndefined ==
    [][\A c \in Calls :
          LET st == stack[c]
              d  == Len(st)
          IN  (/\ InLoop(c)
               /\ Action(c)[1] = "CallMethod"
               /\ d >= 3
               /\ st[d] \in {<<"Str", "">>, <<"Undefined">>}
               /\ Coerces(st[d - 2])
               /\ d - 3 >= Count(st[d - 2])
               /\ StepOf(c)) =>
                  LET n == Count(st[d - 2])
                  IN  /\ ops'[c] = Append(ops[c],
                             <<"Call", st[d - 1], [i \in 1..n |-> st[d - 2 - i]]>>)
                      /\ stack'[c] = Append(SubSeq(st, 1, d - 3 - n),
                                            <<"OpRes", Len(ops[c])>>)
                      /\ pc'[c] = "loop"]_vars

C4_Witness ==
    \E c \in Calls :
        /\ Taken(c) = 2
        /\ Input(c)[1] = Push(<<<<"Sint32", 7>>, <<"Float64", F_1>>, <<"String", "o">>,
                                <<"String", "">>>>)
        /\ ops[c] = << <<"Call", <<"Str", "o">>, << <<"I32", 7>> >> >> >>
        /\ stack[c] = << <<"OpRes", 0>> >>

\* the pool of the last ConstantPool action among the first n of acts
RECURSIVE PoolAfter(_, _)
PoolAfter(acts, n) ==
    IF n = 0 THEN <<>>
    ELSE IF acts[n][1] = "ConstantPool" THEN acts[n][2]
    ELSE PoolAfter(acts, n - 1)

\* C5: Push of Constant(i) puts Str(entry i of the pool of the most recent
\* ConstantPool action before the Push) on the stack, and a ConstantPool
\* action changes neither the stack nor the emitted ops.
C5_PoolAtPushTime ==
    [][\A c \in Calls :
          /\ (InLoop(c) /\ Action(c)[1] = "Push" /\ StepOf(c)) =>
                 LET values == Action(c)[2]
                     pool   == PoolAfter(Input(c), Taken(c))
                 IN  (\A k \in 1..Len(values) :
                          /\ values[k][1] # "Register"
                          /\ values[k][1] = "Constant" => values[k][2] < Len(pool)) =>
                         /\ Len(stack'[c]) = Len(stack[c]) + Len(values)
                         /\ \A k \in 1..Len(values) :
                                values[k][1] = "Constant" =>
                                    stack'[c][Len(stack[c]) + k] =
                                        <<"Str", pool[values[k][2] + 1]>>
          /\ (InLoop(c) /\ Action(c)[1] = "ConstantPool" /\ StepOf(c)) =>
                 (stack'[c] = stack[c] /\ ops'[c] = ops[c])]_vars

C5_Witness ==
    \E c \in Calls :
        /\ Taken(c) = 4
        /\ Input(c)[1] = <<"ConstantPool", <<"a", "b">>>>
        /\ Input(c)[4] = <<"ConstantPool", <<"c">>>>
        /\ consts[c] = <<"c">>
        /\ ops[c] = << <<"GetVar", "a">> >>
        /\ stack[c] = << <<"Str", "b">>, <<"OpRes", 0>> >>

\* the Value kind that corresponds to a literal PushValue kind
LiteralKind ==
    [Undefined |-> "Undefined", Null |-> "Null", Boolean |-> "Bool", Sint32 |-> "I32",
     Float32 |-> "F32", Float64 |-> "F64", String |-> "Str"]

IsLiteralPush(a) ==
    /\ a[1] = "Push"
    /\ \A k \in 1..Len(a[2]) : a[2][k][1] \in DOMAIN LiteralKind

\* the values of the first n actions of acts, in the order they are written
RECURSIVE PushedValues(_, _)
PushedValues(acts, n) ==
    IF n = 0 THEN <<>> ELSE PushedValues(acts, n - 1) \o acts[n][2]

\* C9: after a sequence of Push actions of literals only, the stack holds the
\* corresponding Values in push order, first pushed deepest, and no op has
\* been emitted.
C9_LiteralPushOrder ==
    \A c \in Calls :
        (/\ pc[c] = "loop"
         /\ \A n \in 1..Taken(c) : IsLiteralPush(Input(c)[n])) =>
            LET pushed == PushedValues(Input(c), Taken(c))
            IN  /\ Len(stack[c]) = Len(pushed)
                /\ \A k \in 1..Len(pushed) :
                       stack[c][k] = <<LiteralKind[pushed[k][1]]>> \o Tail(pushed[k])
                /\ ops[c] = <<>>

C9_Witness ==
    \E c \in Calls :
        /\ pc[c] = "loop"
        /\ Taken(c) = 2
        /\ stack[c] = << <<"Bool", TRUE>>, <<"I32", 5>>, <<"F32", F_1_5>>,
                         <<"Undefined">>, <<"Null">> >>

Finished(c) == pc[c] \in {"done", "panic"}

SameOutcome == pc[1] = pc[2] /\ result[1] = result[2]

\* C6: the flow marker does not matter: a block that ends in WaitForFrame2
\* and the same block with any other marker return the same Code (or both
\* none), and the epilogue always goes on to the return, ops untouched.
C6_FlowMarkerIrrelevant ==
    /\ [](/\ Len(cfg[2]) = 1
          /\ cfg[1][1].flow = "WaitForFrame2"
          /\ cfg[2][1].actions = cfg[1][1].actions
          /\ Finished(1)
          /\ Finished(2)
          => SameOutcome)
    /\ [][\A c \in Calls :
             (pc[c] = "flow" /\ StepOf(c)) => (pc'[c] = "ret" /\ ops'[c] = ops[c])]_vars

C6_Witness ==
    /\ Len(cfg[2]) = 1
    /\ cfg[2][1].flow = "WaitForFrame"
    /\ cfg[1][1].actions = <<<<"Play">>, <<"Add">>>>
    /\ pc[1] = "done"
    /\ pc[2] = "done"
    /\ result[1] = <<[ops |-> <<<<"Play">>>>]>>

C10_FirstBlockOnly ==
    (/\ Len(cfg[1]) = 1
     /\ Len(cfg[2]) > 1
     /\ cfg[2][1] = cfg[1][1]
     /\ Finished(1)
     /\ Finished(2)) => SameOutcome

C10_Witness ==
    /\ Len(cfg[2]) = 3
    /\ cfg[2][1] = cfg[1][1]
    /\ pc[1] = "done"
    /\ pc[2] = "done"
    /\ result[2] = <<[ops |-> <<<<"Stop">>, <<"GotoFrame", 3>>>>]>>

\* C11: SetVariable pops the value, then the name; with a String name it
\* appends the one op SetVar(name, value), the value as it was popped (an
\* OpRes included), and pushes OpRes of that op: the stack is one shorter.
C11_SetVariable ==
    [][\A c \in Calls :
          LET st == stack[c]
              d  == Len(st)
          IN  (/\ InLoop(c)
               /\ Action(c)[1] = "SetVariable"
               /\ d >= 2
               /\ st[d - 1][1] = "Str"
               /\ StepOf(c)) =>
                  /\ ops'[c] = Append(ops[c], <<"SetVar", st[d - 1][2], st[d]>>)
                  /\ stack'[c] = Append(SubSeq(st, 1, d - 2), <<"OpRes", Len(ops[c])>>)
                  /\ Len(stack'[c]) = d - 1
                  /\ pc'[c] = "loop"]_vars

C11_Witness ==
    \E c \in Calls :
        /\ Taken(c) = 3
        /\ Input(c)[3] = <<"SetVariable">>
        /\ ops[c] = << <<"GetVar", "f">>, <<"SetVar", "x", <<"OpRes", 0>> >> >>
        /\ stack[c] = << <<"OpRes", 1>> >>
        /\ pc[c] = "loop"

\* C12: CallMethod pops the method name, the receiver and the count, in this
\* order; with a non-empty String name and a count that coerces to n >= 0 it
\* pops n more values and appends the one op CallMethod(receiver, name, args),
\* args in pop order, then pushes OpRes of that op; no GetVar is emitted.
C12_CallMethod ==
    [][\A c \in Calls :
          LET st == stack[c]
              d  == Len(st)
          IN  (/\ InLoop(c)
               /\ Action(c)[1] = "CallMethod"
               /\ d >= 3
               /\ st[d][1] = "Str"
               /\ st[d][2] # ""
               /\ Coerces(st[d - 2])
               /\ as_i32(st[d - 2])[2] >= 0
               /\ d - 3 >= as_i32(st[d - 2])[2]
               /\ StepOf(c)) =>
                  LET n == as_i32(st[d - 2])[2]
                  IN  /\ ops'[c] = Append(ops[c],
                             <<"CallMethod", st[d - 1], st[d][2],
                               [i \in 1..n |-> st[d - 2 - i]]>>)
                      /\ stack'[c] = Append(SubSeq(st, 1, d - 3 - n),
                                            <<"OpRes", Len(ops[c])>>)
                      /\ pc'[c] = "loop"]_vars

C12_Witness ==
    \E c \in Calls :
        /\ Taken(c) = 2
        /\ Input(c)[2] = <<"CallMethod">>
        /\ ops[c] = << <<"CallMethod", <<"Str", "o">>, "m",
                         << <<"I32", 8>>, <<"I32", 7>> >> >> >>
        /\ stack[c] = << <<"OpRes", 0>> >>

SimpleKinds == {"Play", "Stop", "GotoFrame", "GotoLabel", "GetUrl"}

IsPrefix(s, t) == Len(s) <= Len(t) /\ SubSeq(t, 1, Len(s)) = s

\* C13: frame conditions.  Play, Stop, GotoFrame, GotoLabel and GetUrl append
\* exactly one op, of their own kind, and leave the stack and the constant
\* pool as they were; ConstantPool, Push and Pop append no op; ConstantPool
\* leaves the stack, Push and Pop leave the constant pool; and the ops before
\* an action are a prefix of the ops after it.
C13_FrameConditions ==
    [][\A c \in Calls :
          (InLoop(c) /\ StepOf(c) /\ pc'[c] # "panic") =>
              LET kind == Action(c)[1]
              IN  /\ kind \in SimpleKinds =>
                         /\ Len(ops'[c]) = Len(ops[c]) + 1
                         /\ ops'[c][Len(ops'[c])][1] = kind
                         /\ stack'[c] = stack[c]
                         /\ consts'[c] = consts[c]
                         /\ pc'[c] = "loop"
                  /\ kind \in {"ConstantPool", "Push", "Pop"} => ops'[c] = ops[c]
                  /\ kind = "ConstantPool" => stack'[c] = stack[c]
                  /\ kind \in {"Push", "Pop"} => consts'[c] = consts[c]
                  /\ IsPrefix(ops[c], ops'[c])]_vars

C13_Witness ==
    \E c \in Calls :
        /\ Taken(c) = 3
        /\ Input(c)[3] = <<"GotoLabel", "l">>
        /\ consts[c] = <<"g">>
        /\ stack[c] = << <<"Str", "g">> >>
        /\ ops[c] = << <<"GotoLabel", "l">> >>

\* C14: a GotoFrame(n) action appends the op GotoFrame carrying the same
\* frame number n, whatever n the action carries.
C14_GotoFrameSameNumber ==
    [][\A c \in Calls :
          (InLoop(c) /\ Action(c)[1] = "GotoFrame" /\ StepOf(c)) =>
              ops'[c] = Append(ops[c], <<"GotoFrame", Action(c)[2]>>)]_vars

\* the Push about to be processed reads a register, or a constant at an index
\* the pool in force does not have
BadIndex(c) ==
    \E k \in 1..Len(Action(c)[2]) :
        LET pv == Action(c)[2][k]
        IN  \/ pv[1] = "Register"
            \/ pv[1] = "Constant" /\ pv[2] >= Len(consts[c])
            \/ pv[1] = "Constant" /\ pv[2] >= Len(PoolAfter(Input(c), Taken(c)))

\* C15: the register file is empty in every state, so a Push with a
\* Register(i) ends the translation abnormally; so does a Push with a
\* Constant(i), i not below the length of the pool in force (an empty pool
\* before the first ConstantPool action); no Code is returned then.
C15_IndexErrorsFatal ==
    /\ [](\A c \in Calls : regs[c] = <<>>)
    /\ [][\A c \in Calls :
             /\ (InLoop(c) /\ Action(c)[1] = "Push" /\ BadIndex(c) /\ StepOf(c)) =>
                    (pc'[c] = "panic" /\ result'[c] = <<>>)
             /\ pc[c] = "panic" => (pc'[c] = "panic" /\ result'[c] = <<>>)]_vars

C15_Witness ==
    \E c \in Calls :
        /\ pc[c] = "panic"
        /\ Taken(c) = 2
        /\ Input(c)[1] = <<"ConstantPool", <<"a", "b">>>>
        /\ Input(c)[2] = Push(<<<<"String", "s">>, <<"Register", 0>>>>)
        /\ result[c] = <<>>

\* the float is an integer of the 32-bit signed range, and that integer
ExactI32(f) ==
    /\ f[1] = "fin"
    /\ f[3] >= 0
    /\ IF f[3] >= 31 THEN f = <<"fin", -1, 31>>
       ELSE (IF f[2] < 0 THEN -f[2] ELSE f[2]) <= I32Max \div (2 ^ f[3])

IntegerOf(f) == IF f[3] >= 31 THEN I32Min ELSE f[2] * (2 ^ f[3])

\* what the claim says as_i32 returns
ClaimedAsI32(v) ==
    IF v[1] = "I32" THEN <<"Some", v[2]>>
    ELSE IF v[1] \in {"F32", "F64"} /\ ExactI32(v[2]) THEN <<"Some", IntegerOf(v[2])>>
    ELSE <<"None">>

\* the value CallFunction or CallMethod is about to take as argument count
CountOperand(c) ==
    IF Action(c)[1] = "CallFunction" THEN stack[c][Len(stack[c]) - 1]
    ELSE stack[c][Len(stack[c]) - 2]

\* C16: as_i32 is Some(x) for I32(x), Some(n) for a float that is exactly the
\* integer n of the 32-bit signed range, and None for any other float
\* (non-integral, out of range, NaN) and for Undefined, Null, Bool, Str and
\* OpRes; with None as argument count CallFunction and CallMethod bail out.
C16_AsI32 ==
    [][\A c \in Calls :
          (/\ InLoop(c)
           /\ \/ Action(c)[1] = "CallFunction" /\ Len(stack[c]) >= 2
              \/ Action(c)[1] = "CallMethod" /\ Len(stack[c]) >= 3
           /\ StepOf(c)) =>
              /\ as_i32(CountOperand(c)) = ClaimedAsI32(CountOperand(c))
              /\ ClaimedAsI32(CountOperand(c)) = <<"None">> =>
                     (pc'[c] = "flow" /\ ops'[c] = ops[c])]_vars

\* C17: a count that coerces to n <= 0 is no bail-out: CallFunction and
\* CallMethod pop no argument, emit their ops with an empty argument list and
\* push OpRes of the call op on what was below name (receiver) and count.
C17_NoArgsForNonPositiveCount ==
    [][\A c \in Calls :
          LET st == stack[c]
              d  == Len(st)
              k  == Len(ops[c])
          IN  /\ (/\ InLoop(c)
                  /\ Action(c)[1] = "CallFunction"
                  /\ d >= 2
                  /\ st[d][1] = "Str"
                  /\ Coerces(st[d - 1])
                  /\ as_i32(st[d - 1])[2] <= 0
                  /\ StepOf(c)) =>
                     /\ ops'[c] = ops[c] \o << <<"GetVar", st[d][2]>>,
                                               <<"Call", <<"OpRes", k>>, <<>> >> >>
                     /\ stack'[c] = Append(SubSeq(st, 1, d - 2), <<"OpRes", k + 1>>)
                     /\ pc'[c] = "loop"
              /\ (/\ InLoop(c)
                  /\ Action(c)[1] = "CallMethod"
                  /\ d >= 3
                  /\ st[d][1] \in {"Str", "Undefined"}
                  /\ Coerces(st[d - 2])
                  /\ as_i32(st[d - 2])[2] <= 0
                  /\ StepOf(c)) =>
                     /\ ops'[c] = Append(ops[c],
                            IF st[d] \in {<<"Undefined">>, <<"Str", "">>}
                            THEN <<"Call", st[d - 1], <<>> >>
                            ELSE <<"CallMethod", st[d - 1], st[d][2], <<>> >>)
                     /\ stack'[c] = Append(SubSeq(st, 1, d - 3), <<"OpRes", k>>)
                     /\ pc'[c] = "loop"]_vars

C17_Witness ==
    \E c \in Calls :
        /\ Taken(c) = 2
        /\ Input(c)[1] = Push(<<<<"Sint32", -1>>, <<"Sint32", -1>>, <<"String", "f">>>>)
        /\ Input(c)[2] = <<"CallFunction">>
        /\ ops[c] = << <<"GetVar", "f">>, <<"Call", <<"OpRes", 0>>, <<>> >> >>
        /\ stack[c] = << <<"I32", -1>>, <<"OpRes", 1>> >>

\* all operands of all ops of os, in order
RECURSIVE Operands(_)
Operands(os) ==
    IF os = <<>> THEN <<>> ELSE Operands(Front(os)) \o OpValues(os[Len(os)])

ValueOps == {"GetVar", "SetVar", "Call", "CallMethod"}

\* every OpRes(i) of vs names an op of os that produces a value
RefersToValueOps(vs, os) ==
    \A k \in 1..Len(vs) :
        vs[k][1] = "OpRes" =>
            /\ vs[k][2] >= 0
            /\ vs[k][2] < Len(os)
            /\ os[vs[k][2] + 1][1] \in ValueOps

\* C18: every OpRes(i) on the stack or among the operands of the emitted ops
\* refers to a GetVar, SetVar, Call or CallMethod op, never to Play, Stop,
\* GotoFrame, GotoLabel or GetUrl; the same holds in the returned Code.
C18_OpResOfValueOps ==
    \A c \in Calls :
        /\ RefersToValueOps(stack[c] \o Operands(ops[c]), ops[c])
        /\ \A r \in 1..Len(result[c]) :
               RefersToValueOps(Operands(result[c][r].ops), result[c][r].ops)

C18_Witness ==
    \E c \in Calls :
        /\ ops[c] = << <<"GetUrl", "u", "t">>, <<"GetVar", "f">> >>
        /\ stack[c] = << <<"Str", "x">>, <<"OpRes", 1>> >>

\* no OpRes occurs twice in vs
Linear(vs) ==
    \A p \in 1..Len(vs) : \A q \in 1..Len(vs) :
        (p < q /\ vs[p][1] = "OpRes") => vs[p] # vs[q]

\* C19: op results are used linearly: an OpRes(i) occurs at most once over
\* the stack and all operands of all emitted ops, and in the returned Code.
C19_LinearResults ==
    \A c \in Calls :
        /\ Linear(stack[c] \o Operands(ops[c]))
        /\ \A r \in 1..Len(result[c]) : Linear(Operands(result[c][r].ops))

C19_Witness ==
    \E c \in Calls :
        /\ ops[c] = << <<"GetVar", "f">>, <<"Call", <<"OpRes", 0>>, << <<"I32", 1>> >> >> >>
        /\ stack[c] = << <<"OpRes", 1>> >>

====
